---- MODULE Spec2Model ----
(***************************************************************************)
(* Model of the rule-based crop recommender of                             *)
(* backend/app/ml_models/crop_model.py, and of the yield predictor of      *)
(* backend/app/ml_models/yield_model.py with its route.                    *)
(*                                                                         *)
(* Strings are sequences of tokens: a token is a word ("Red", "soil") or   *)
(* one whitespace character (" ", "\t").  "Red soil" is                    *)
(* <<"Red", " ", "soil">>, the empty string is <<>>.  Tokens are compared  *)
(* exactly, so "siruguppa" and "Siruguppa" are different strings.          *)
(*                                                                         *)
(* A weight 0.55 is kept as the integer 55 (hundredths); float(s) keeps    *)
(* the value of a weight.  Yields and confidences are hundredths too.      *)
(***************************************************************************)
EXTENDS Integers, Sequences, FiniteSets, TLC

VARIABLES RULES, pc, input_data, result, raised, matching_rules, rule,
          remembered

\* The yield predictor (yield_model.py), the yield route (yield_routes.py) and
\* what they use: the two files of the persisted model, the database.
VARIABLES model, label_encoders, is_trained_on_real_data, files, db_up,
          predictions_collection, calls, last_load

\* The routes of the other services: the answer of the crop route
\* (crop_routes.py), the uploads directory and the request of the disease
\* route (disease_routes.py), the collections read by the dashboard and its
\* answer (dashboard_routes.py), the users collection and the signup requests
\* (auth_routes.py).
VARIABLES crop_response, uploads, detect, collections, dashboard, users, signups

cropvars == <<RULES, pc, input_data, result, raised, matching_rules, rule,
              remembered>>

yieldvars == <<model, label_encoders, is_trained_on_real_data, files, db_up,
               predictions_collection, calls, last_load>>

routevars == <<crop_response>>

diseasevars == <<uploads, detect>>

dashvars == <<collections, dashboard>>

authvars == <<users, signups>>

webvars == <<crop_response, uploads, detect, collections, dashboard, users, signups>>

vars == <<RULES, pc, input_data, result, raised, matching_rules, rule,
          remembered, model, label_encoders, is_trained_on_real_data, files,
          db_up, predictions_collection, calls, last_load, crop_response,
          uploads, detect, collections, dashboard, users, signups>>

\* ---------------------------------------------------------------- bounds
\* Number of whitespace characters put before / after a padded query field.
PadLen == 1
\* Largest number of rules in a generated catalog.
MaxRules == 2
\* Calls counted between a remembered call and the call compared with it.
MaxBetween == 1
\* Requests being served and documents of the predictions collection, together.
MaxDocs == 2
\* Largest number of files in the uploads directory.
MaxUploads == 2
\* Signups being served and stored users, together.
MaxUsers == 3

\* --------------------------------------------------------------- strings
Red_soil == <<"Red", " ", "soil">>
Black_soil == <<"Black", " ", "soil">>
Alluvial_soil == <<"Alluvial", " ", "soil">>
Clay == <<"Clay">>

IsSpace(c) == c \in {" ", "\t"}

RECURSIVE lstrip(_)
lstrip(s) ==
    IF s = <<>> THEN s
    ELSE IF IsSpace(Head(s)) THEN lstrip(Tail(s)) ELSE s

RECURSIVE rstrip(_)
rstrip(s) ==
    IF s = <<>> THEN s
    ELSE IF IsSpace(s[Len(s)]) THEN rstrip(SubSeq(s, 1, Len(s) - 1)) ELSE s

\* str.lstrip() in the place of str.strip().
strip_left_only(s) == lstrip(s)

\* str.strip(): drop leading and trailing whitespace, keep the inner one.
strip(s) == rstrip(lstrip(s))

\* ------------------------------------------------------------ the catalog
Rule(d, se, so, ir, cr) ==
    [district |-> d, season |-> se, soil_types |-> so, irrigation |-> ir,
     crops |-> cr]

ShippedRULES == <<
    Rule(<<"Siruguppa">>, <<"Kharif">>,
         <<Red_soil, Black_soil, Alluvial_soil>>, <<<<"Canal">>, <<"Borewell">>>>,
         << <<"Paddy", 55>>, <<"Maize", 25>>, <<"Cotton", 12>>, <<"Red gram", 8>> >>),
    Rule(<<"Siruguppa">>, <<"Rabi">>,
         <<Red_soil, Black_soil>>, <<<<"Borewell">>, <<"Canal">>>>,
         << <<"Wheat", 40>>, <<"Chickpea", 35>>, <<"Sunflower", 25>> >>),
    Rule(<<"Siruguppa">>, <<"Zaid">>,
         <<Red_soil, Alluvial_soil>>, <<<<"Borewell">>>>,
         << <<"Maize", 45>>, <<"Vegetables", 35>>, <<"Fodder maize", 20>> >>),
    Rule(<<"Sindhanur">>, <<"Kharif">>,
         <<Red_soil, Black_soil, Alluvial_soil>>, <<<<"Canal">>, <<"Borewell">>>>,
         << <<"Paddy", 65>>, <<"Maize", 20>>, <<"Soybean", 10>>, <<"Cotton", 5>> >>),
    Rule(<<"Sindhanur">>, <<"Rabi">>,
         <<Red_soil, Black_soil>>, <<<<"Borewell">>>>,
         << <<"Paddy", 50>>, <<"Wheat", 25>>, <<"Chickpea", 25>> >>),
    Rule(<<"Sindhanur">>, <<"Zaid">>,
         <<Red_soil, Alluvial_soil>>, <<<<"Borewell">>>>,
         << <<"Vegetables", 40>>, <<"Maize", 35>>, <<"Fodder maize", 25>> >>),
    Rule(<<"Gangavathi">>, <<"Kharif">>,
         <<Red_soil, Black_soil, Alluvial_soil>>, <<<<"Canal">>, <<"Borewell">>>>,
         << <<"Paddy", 50>>, <<"Groundnut", 20>>, <<"Maize", 15>>, <<"Cotton", 15>> >>),
    Rule(<<"Gangavathi">>, <<"Rabi">>,
         <<Red_soil, Black_soil>>, <<<<"Borewell">>>>,
         << <<"Groundnut", 40>>, <<"Sunflower", 30>>, <<"Chickpea", 30>> >>),
    Rule(<<"Gangavathi">>, <<"Zaid">>,
         <<Red_soil, Alluvial_soil>>, <<<<"Borewell">>>>,
         << <<"Vegetables", 40>>, <<"Maize", 30>>, <<"Fodder maize", 30>> >>),
    Rule(<<"Vijaypur">>, <<"Kharif">>,
         <<Black_soil, Red_soil>>, <<<<"Rainfed">>, <<"Borewell">>>>,
         << <<"Jowar", 45>>, <<"Bajra", 25>>, <<"Cotton", 20>>, <<"Red gram", 10>> >>),
    Rule(<<"Vijaypur">>, <<"Rabi">>,
         <<Black_soil>>, <<<<"Rainfed">>, <<"Borewell">>>>,
         << <<"Wheat", 40>>, <<"Chickpea", 35>>, <<"Linseed", 25>> >>),
    Rule(<<"Vijaypur">>, <<"Zaid">>,
         <<Red_soil, Black_soil>>, <<<<"Borewell">>>>,
         << <<"Vegetables", 50>>, <<"Fodder maize", 30>>, <<"Maize", 20>> >>)
>>

\* Rules the generated catalogs are built from.  They share one district and
\* season, so that several rules compete for one query, and differ in what
\* they accept: for the query (Red soil, Canal) PoolA is exact, PoolB is
\* soil-only, PoolC and PoolD are residual; for (Red soil, Drip) PoolB is exact
\* and PoolA soil-only.  PoolA lists its options out of order with equal
\* weights on both sides of the third place, PoolD has no options at all.
PoolA == Rule(<<"Siruguppa">>, <<"Kharif">>, <<Red_soil>>, <<<<"Canal">>>>,
              << <<"Maize", 25>>, <<"Paddy", 55>>, <<"Cotton", 25>>, <<"Red gram", 25>> >>)
PoolB == Rule(<<"Siruguppa">>, <<"Kharif">>, <<Red_soil, Black_soil>>, <<<<"Drip">>>>,
              << <<"Jowar", 45>> >>)
PoolC == Rule(<<"Siruguppa">>, <<"Kharif">>, <<Black_soil>>, <<<<"Canal">>, <<"Drip">>>>,
              << <<"Chickpea", 20>>, <<"Wheat", 60>> >>)
PoolD == Rule(<<"Siruguppa">>, <<"Kharif">>, <<Alluvial_soil>>, <<<<"Canal">>>>, << >>)

PoolRules == {PoolA, PoolB, PoolC, PoolD}

RECURSIVE SeqsUpTo(_, _)
SeqsUpTo(S, n) ==
    IF n = 0 THEN {<< >>}
    ELSE LET shorter == SeqsUpTo(S, n - 1)
         IN  shorter \cup {Append(c, r) : c \in shorter, r \in S}

\* The catalogs the recommender is run with: the shipped table and every table
\* of at most MaxRules pool rules, in every order.
Catalogs == {ShippedRULES} \cup SeqsUpTo(PoolRules, MaxRules)

\* ------------------------------------------------------------ the queries
Spaces == [i \in 1..PadLen |-> " "]
Tabs == [i \in 1..PadLen |-> "\t"]

Keys == {"district", "season", "soil_type", "irrigation_source"}

DistrictValues ==
    {<<"Siruguppa">>, <<"siruguppa">>, <<"Gangavathi">>,
     <<"Unknown", " ", "Place">>, << >>}
SeasonValues == {<<"Kharif">>, <<"kharif">>, <<"Rabi">>}
SoilValues == {Red_soil, <<"red", " ", "soil">>, Clay}
IrrigationValues == {<<"Canal">>, <<"Drip">>}

ValuesOf(k, K, V) == IF k \in K THEN V ELSE {<< >>}

\* Request dictionaries: any subset of the four keys, each present key bound
\* to one of the strings above, the values of one dictionary all written with
\* the same whitespace around them: none, Spaces in front, Tabs behind, or both.
Inputs ==
    UNION { { [k \in K |-> lp \o (CASE k = "district" -> d
                                    [] k = "season" -> se
                                    [] k = "soil_type" -> so
                                    [] k = "irrigation_source" -> ir) \o rp]
              : d \in ValuesOf("district", K, DistrictValues),
                se \in ValuesOf("season", K, SeasonValues),
                so \in ValuesOf("soil_type", K, SoilValues),
                ir \in ValuesOf("irrigation_source", K, IrrigationValues),
                lp \in {<< >>, Spaces}, rp \in {<< >>, Tabs} }
            : K \in SUBSET Keys }

\* dict.get(key, default)
Get(d, key, default) == IF key \in DOMAIN d THEN d[key] ELSE default

\* x in list
In(x, list) == \E k \in 1..Len(list) : list[k] = x

\* str.lower() of the words that occur in the catalogs and the queries.
lower_word(w) ==
    CASE w = "Siruguppa" -> "siruguppa"
      [] w = "Gangavathi" -> "gangavathi"
      [] w = "Kharif" -> "kharif"
      [] w = "Rabi" -> "rabi"
      [] w = "Red" -> "red"
      [] w = "Black" -> "black"
      [] w = "Alluvial" -> "alluvial"
      [] w = "Clay" -> "clay"
      [] w = "Canal" -> "canal"
      [] w = "Drip" -> "drip"
      [] w = "Unknown" -> "unknown"
      [] w = "Place" -> "place"
      [] OTHER -> w
lower(s) == [k \in 1..Len(s) |-> lower_word(s[k])]

\* ------------------------------------------------------ CropRecommender
\* match_loop without the season test.
RECURSIVE match_loop_any_season(_, _, _, _, _, _)
match_loop_any_season(i, district, season, soil_type, irrigation_source, acc) ==
    IF i > Len(RULES) THEN acc
    ELSE LET r == RULES[i]
             next ==
                 IF r.district # district THEN acc
                 ELSE IF In(soil_type, r.soil_types) /\ In(irrigation_source, r.irrigation)
                      THEN [acc EXCEPT !.exact_matches = Append(@, i)]
                 ELSE IF In(soil_type, r.soil_types)
                      THEN [acc EXCEPT !.soil_matches = Append(@, i)]
                 ELSE [acc EXCEPT !.season_matches = Append(@, i)]
         IN  match_loop_any_season(i + 1, district, season, soil_type,
                                   irrigation_source, next)

\* match_loop that compares district, season and soil without regard to case.
RECURSIVE match_loop_ignoring_case(_, _, _, _, _, _)
match_loop_ignoring_case(i, district, season, soil_type, irrigation_source, acc) ==
    IF i > Len(RULES) THEN acc
    ELSE LET r == RULES[i]
             soil_ok == \E k \in 1..Len(r.soil_types) :
                            lower(r.soil_types[k]) = lower(soil_type)
             next ==
                 IF lower(r.district) # lower(district) THEN acc
                 ELSE IF lower(r.season) # lower(season) THEN acc
                 ELSE IF soil_ok /\ In(irrigation_source, r.irrigation)
                      THEN [acc EXCEPT !.exact_matches = Append(@, i)]
                 ELSE IF soil_ok
                      THEN [acc EXCEPT !.soil_matches = Append(@, i)]
                 ELSE [acc EXCEPT !.season_matches = Append(@, i)]
         IN  match_loop_ignoring_case(i + 1, district, season, soil_type,
                                      irrigation_source, next)

\* match_loop whose second test also takes a rule that accepts the irrigation.
RECURSIVE match_loop_soil_or_water(_, _, _, _, _, _)
match_loop_soil_or_water(i, district, season, soil_type, irrigation_source, acc) ==
    IF i > Len(RULES) THEN acc
    ELSE LET r == RULES[i]
             next ==
                 IF r.district # district THEN acc
                 ELSE IF r.season # season THEN acc
                 ELSE IF In(soil_type, r.soil_types) /\ In(irrigation_source, r.irrigation)
                      THEN [acc EXCEPT !.exact_matches = Append(@, i)]
                 ELSE IF In(soil_type, r.soil_types) \/ In(irrigation_source, r.irrigation)
                      THEN [acc EXCEPT !.soil_matches = Append(@, i)]
                 ELSE [acc EXCEPT !.season_matches = Append(@, i)]
         IN  match_loop_soil_or_water(i + 1, district, season, soil_type,
                                      irrigation_source, next)

\* The for loop of _match_rules from rule i on; the three lists hold
\* references to rules, kept as positions in RULES.
RECURSIVE match_loop(_, _, _, _, _, _)
match_loop(i, district, season, soil_type, irrigation_source, acc) ==
    IF i > Len(RULES) THEN acc
    ELSE LET r == RULES[i]
             next ==
                 IF r.district # district THEN acc
                 ELSE IF r.season # season THEN acc
                 ELSE IF In(soil_type, r.soil_types) /\ In(irrigation_source, r.irrigation)
                      THEN [acc EXCEPT !.exact_matches = Append(@, i)]
                 ELSE IF In(soil_type, r.soil_types)
                      THEN [acc EXCEPT !.soil_matches = Append(@, i)]
                 ELSE [acc EXCEPT !.season_matches = Append(@, i)]
         IN  match_loop(i + 1, district, season, soil_type, irrigation_source, next)

\* The three lists after the loop, for the stripped arguments.
match_lists(district, season, soil_type, irrigation_source) ==
    match_loop(1, strip(district), strip(season), strip(soil_type),
               strip(irrigation_source),
               [exact_matches |-> << >>, soil_matches |-> << >>,
                season_matches |-> << >>])

\* _match_rules that never returns the district+season list.
_match_rules_no_residual(district, season, soil_type, irrigation_source) ==
    LET b == match_lists(district, season, soil_type, irrigation_source)
    IN  IF b.exact_matches # << >> THEN b.exact_matches
        ELSE b.soil_matches

\* _match_rules that returns the exact list only.
_match_rules_exact_only(district, season, soil_type, irrigation_source) ==
    match_lists(district, season, soil_type, irrigation_source).exact_matches

\* _match_rules that tries the soil list before the exact list.
_match_rules_soil_first(district, season, soil_type, irrigation_source) ==
    LET b == match_lists(district, season, soil_type, irrigation_source)
    IN  IF b.soil_matches # << >> THEN b.soil_matches
        ELSE IF b.exact_matches # << >> THEN b.exact_matches
        ELSE b.season_matches

\* _match_rules that tries the district+season list before the soil list.
_match_rules_residual_first(district, season, soil_type, irrigation_source) ==
    LET b == match_lists(district, season, soil_type, irrigation_source)
    IN  IF b.exact_matches # << >> THEN b.exact_matches
        ELSE IF b.season_matches # << >> THEN b.season_matches
        ELSE b.soil_matches

\* _match_rules that skips the soil list.
_match_rules_without_soil_list(district, season, soil_type, irrigation_source) ==
    LET b == match_lists(district, season, soil_type, irrigation_source)
    IN  IF b.exact_matches # << >> THEN b.exact_matches
        ELSE b.season_matches

_match_rules(district, season, soil_type, irrigation_source) ==
    LET b == match_lists(district, season, soil_type, irrigation_source)
    IN  IF b.exact_matches # << >> THEN b.exact_matches
        ELSE IF b.soil_matches # << >> THEN b.soil_matches
        ELSE b.season_matches

\* Insert x into a list sorted by descending score, behind every element whose
\* score is at least x's: equal scores keep their order of arrival.
RECURSIVE place(_, _)
place(x, acc) ==
    IF acc = << >> THEN <<x>>
    ELSE IF Head(acc)[2] >= x[2] THEN <<Head(acc)>> \o place(x, Tail(acc))
    ELSE <<x>> \o acc

\* place that puts x in front of the elements of equal score.
RECURSIVE place_before_equal(_, _)
place_before_equal(x, acc) ==
    IF acc = << >> THEN <<x>>
    ELSE IF Head(acc)[2] > x[2] THEN <<Head(acc)>> \o place_before_equal(x, Tail(acc))
    ELSE <<x>> \o acc

\* place for an ascending order.
RECURSIVE place_ascending(_, _)
place_ascending(x, acc) ==
    IF acc = << >> THEN <<x>>
    ELSE IF Head(acc)[2] <= x[2] THEN <<Head(acc)>> \o place_ascending(x, Tail(acc))
    ELSE <<x>> \o acc

RECURSIVE sort_from(_, _)
sort_from(crops, acc) ==
    IF crops = << >> THEN acc
    ELSE sort_from(Tail(crops), place(Head(crops), acc))

RECURSIVE sort_from_unstable(_, _)
sort_from_unstable(crops, acc) ==
    IF crops = << >> THEN acc
    ELSE sort_from_unstable(Tail(crops), place_before_equal(Head(crops), acc))

RECURSIVE sort_from_ascending(_, _)
sort_from_ascending(crops, acc) ==
    IF crops = << >> THEN acc
    ELSE sort_from_ascending(Tail(crops), place_ascending(Head(crops), acc))

\* The options left in the order of the rule.
sorted_not_at_all(crops) == crops

\* A descending sort that reverses the options of equal score.
sorted_reversing_ties(crops) == sort_from_unstable(crops, << >>)

\* The sort without reverse=True.
sorted_ascending(crops) == sort_from_ascending(crops, << >>)

\* sorted(crops, key=lambda x: x[1], reverse=True): a stable sort; with
\* reverse=True elements of equal key still keep their original order.
sorted_by_score(crops) == sort_from(crops, << >>)

\* list[:n-1]
Take_one_less(list, n) == SubSeq(list, 1, IF Len(list) < n - 1 THEN Len(list) ELSE n - 1)

\* list[:n]
Take(list, n) == SubSeq(list, 1, IF Len(list) < n THEN Len(list) ELSE n)

\* float(s) of a weight: the same number.
float(s) == s

\* A fallback list that names a crop twice.
fallback_crops_repeating == << <<"Paddy", 40>>, <<"Paddy", 35>>, <<"Chickpea", 25>> >>

fallback_crops == << <<"Paddy", 40>>, <<"Maize", 35>>, <<"Chickpea", 25>> >>

\* [{"crop": c, "score": float(s)} for c, s in pairs]
predictions(pairs) ==
    [k \in 1..Len(pairs) |-> [crop |-> pairs[k][1], score |-> float(pairs[k][2])]]

\* matching_rules[-1]
last_rule(matching) == matching[Len(matching)]

\* matching_rules[0]
first_rule(matching) == matching[1]

\* crops.sort(key=lambda x: x[1]); crops.reverse() on the rule's own list.
rules_after_reversing_sort_in_place(winner) ==
    [RULES EXCEPT ![winner].crops = sorted_reversing_ties(@)]

\* crops.sort(key=lambda x: x[1], reverse=True) on the rule's own list.
rules_after_sort_in_place(winner) ==
    [RULES EXCEPT ![winner].crops = sorted_by_score(@)]

\* The catalog after sorted(crops, ...): sorted builds a new list and leaves
\* the list of the rule as it is.
rules_after_sorted(winner) == RULES

\* Nothing was returned (the call has not run, or it raised).
NoResult == [recommended_crop |-> "", top_predictions |-> << >>]

\* CropRecommender.recommend: the returned dictionary, the exception raised
\* ("none" when it returns), the locals matching_rules and rule (0 when rule
\* is not bound) and the catalog as the call leaves it.
recommend(input) ==
    LET district == Get(input, "district", << >>)
        soil_type == Get(input, "soil_type", << >>)
        season == Get(input, "season", << >>)
        irrigation_source == Get(input, "irrigation_source", << >>)
        matching == _match_rules(district, season, soil_type, irrigation_source)
    IN  IF matching = << >>
        THEN [result |-> [recommended_crop |-> fallback_crops[1][1],
                          top_predictions |-> predictions(fallback_crops)],
              raised |-> "none", matching_rules |-> matching, rule |-> 0,
              rules |-> RULES]
        ELSE LET winner == first_rule(matching)
                 crops == RULES[winner].crops
                 crops_sorted == sorted_by_score(crops)
             IN  IF crops_sorted = << >>
                 THEN \* crops_sorted[0] of an empty list
                      [result |-> NoResult, raised |-> "IndexError",
                       matching_rules |-> matching, rule |-> winner,
                       rules |-> rules_after_sorted(winner)]
                 ELSE [result |-> [recommended_crop |-> crops_sorted[1][1],
                                   top_predictions |-> predictions(Take(crops_sorted, 3))],
                       raised |-> "none", matching_rules |-> matching,
                       rule |-> winner, rules |-> rules_after_sorted(winner)]

\* ------------------------------------------------------- YieldPredictor
\* Values of the yield path are compared as they are, never stripped: they are
\* plain strings.  None is << >>, a value that may be None is << >> or <<v>>.

\* self.features
features ==
    <<"state", "district", "crop_name", "soil_type", "season", "irrigation_source">>

\* required_fields of the route, in the order they are tested.
required_fields ==
    <<"crop_name", "soil_type", "season", "irrigation_source", "state", "district">>

\* model_features of the route.
model_features ==
    <<"state", "district", "crop_name", "soil_type", "season", "irrigation_source">>

\* What joblib.load gives for yield_encoders.pkl: for every feature the
\* classes_ of its fitted LabelEncoder, in ascending order.
FittedEncoders ==
    [state |-> <<"Andhra Pradesh", "Karnataka">>,
     district |-> <<"Ballari", "Koppal">>,
     crop_name |-> <<"Maize", "Paddy">>,
     soil_type |-> <<"Black soil", "Red soil">>,
     season |-> <<"Kharif", "Rabi">>,
     irrigation_source |-> <<"Borewell", "Canal">>]

\* A request whose six values all have code 1 in the vocabularies.
KnownBody ==
    [state |-> "Karnataka", district |-> "Koppal", crop_name |-> "Paddy",
     soil_type |-> "Red soil", season |-> "Rabi", irrigation_source |-> "Canal"]

\* Values in no vocabulary (those of test_yield_prediction among them).
UnknownBody ==
    [state |-> "Goa", district |-> "Bangalore Urban", crop_name |-> "Tomato",
     soil_type |-> "Loamy", season |-> "Zaid", irrigation_source |-> "Drip"]

\* Known values of code 0.
FirstClassBody ==
    [state |-> "Andhra Pradesh", district |-> "Ballari", crop_name |-> "Maize",
     soil_type |-> "Black soil", season |-> "Kharif", irrigation_source |-> "Borewell"]

\* Values that are numbers: the body of the route is any JSON object, and a
\* numeral in a string is a number to the forest as well.
NumericBody ==
    [state |-> "1", district |-> "1", crop_name |-> "1",
     soil_type |-> "1", season |-> "1", irrigation_source |-> "1"]

\* The known request with one field left out and another empty or left out.
TwoMissingBodies ==
    {[g \in DOMAIN KnownBody \ {f} |-> IF g = e THEN "" ELSE KnownBody[g]]
        : <<f, e>> \in {p \in (DOMAIN KnownBody) \X (DOMAIN KnownBody) : p[1] # p[2]}}
    \cup {[g \in DOMAIN KnownBody \ {f, e} |-> KnownBody[g]]
        : <<f, e>> \in {p \in (DOMAIN KnownBody) \X (DOMAIN KnownBody) : p[1] # p[2]}}

\* Request bodies of the yield route: every mix of known and unknown values,
\* the known request with one value of code 0, one empty value or one field
\* left out, with two fields empty or left out, and the request of numbers.
YieldBodies ==
    {[f \in DOMAIN KnownBody |-> IF f \in U THEN UnknownBody[f] ELSE KnownBody[f]]
        : U \in SUBSET DOMAIN KnownBody}
    \cup {[KnownBody EXCEPT ![f] = FirstClassBody[f]] : f \in DOMAIN KnownBody}
    \cup {[KnownBody EXCEPT ![f] = ""] : f \in DOMAIN KnownBody}
    \cup {[g \in DOMAIN KnownBody \ {f} |-> KnownBody[g]] : f \in DOMAIN KnownBody}
    \cup {NumericBody}
    \cup TwoMissingBodies

\* Request bodies of the runs with two calls at a time.
RaceBodies == {KnownBody, [UnknownBody EXCEPT !.season = "Rabi"]}

Threads == {1, 2}

\* field not in yield_data or not yield_data[field]
is_missing(yield_data, field) ==
    field \notin DOMAIN yield_data \/ yield_data[field] = ""

\* The for loop over required_fields from position i: the first field that
\* raises the 400, "" when none does.
RECURSIVE first_missing(_, _)
first_missing(yield_data, i) ==
    IF i > Len(required_fields) THEN ""
    ELSE IF is_missing(yield_data, required_fields[i]) THEN required_fields[i]
    ELSE first_missing(yield_data, i + 1)

\* {feature: yield_data[feature] for feature in model_features if feature in yield_data}
model_input_of(yield_data) ==
    [f \in {model_features[k] : k \in 1..Len(model_features)} \cap DOMAIN yield_data
        |-> yield_data[f]]

\* le.transform([v])[0] for v in le.classes_: the position of v, from 0.
RECURSIVE transform(_, _, _)
transform(classes, v, i) ==
    IF classes[i] = v THEN i - 1 ELSE transform(classes, v, i + 1)

\* The cell of input_df for one feature with encoder classes: a value that is
\* not encoded is left as the string it is.
encode_value_unhandled(classes, v) ==
    IF \E k \in 1..Len(classes) : classes[k] = v
    THEN [code |-> transform(classes, v, 1)]
    ELSE [raw |-> v]

\* The cell of input_df for one feature with encoder classes: the code of a
\* known value, 0 for a value that is not in classes_.
encode_value(classes, v) ==
    IF \E k \in 1..Len(classes) : classes[k] = v
    THEN [code |-> transform(classes, v, 1)]
    ELSE [code |-> 0]

\* input_df after the encoding loop, for the encoders in memory: a feature
\* without encoder keeps its string.
encode(input, encoders) ==
    [f \in {features[k] : k \in 1..Len(features)} \cap DOMAIN input |->
        IF f \in DOMAIN encoders THEN encode_value(encoders[f], input[f])
        ELSE [raw |-> input[f]]]

\* The number a cell of input_df is to the forest; a string that is no
\* numeral is none (<< >>).
cell_number(cell) ==
    IF "code" \in DOMAIN cell THEN <<cell.code>>
    ELSE IF cell.raw = "1" THEN <<1>>
    ELSE << >>

\* self.model.predict(input_df) raises: the forest was fitted on the six
\* columns and converts every cell to a float.
model_raises(input_df) ==
    \/ DOMAIN input_df # {features[k] : k \in 1..Len(features)}
    \/ \E f \in DOMAIN input_df : cell_number(input_df[f]) = << >>

\* self.model.predict(input_df)[0] of the fitted forest, which is opaque: here
\* 1.50 or 2.50 tons per hectare by the number in the crop column.
model_predict(input_df) == 150 + 100 * cell_number(input_df["crop_name"])[1]

\* round(np.random.uniform(0.88, 0.96), 2) / round(np.random.uniform(0.75, 0.85), 2)
confidences(trained_on_real) == IF trained_on_real THEN {88, 96} ELSE {75, 85}

\* np.random.randint(1000, 9999)
random_ids == {1000, 9998}

\* _generate_recommendations: the advice for soil, irrigation and season that
\* applies, then the three general ones.
generate_recommendations(input) ==
    (IF input["soil_type"] \in {"Red soil", "Laterite soil", "Black soil", "Alluvial soil"}
        THEN <<"soil">> ELSE << >>)
    \o (IF input["irrigation_source"] \in {"Rainfed", "Drip", "Canal", "Well"}
        THEN <<"irrigation">> ELSE << >>)
    \o (IF input["season"] \in {"Kharif", "Rabi"} THEN <<"season">> ELSE << >>)
    \o <<"soil test", "crop rotation", "certified seeds">>

\* The load in predict fails and the exception leaves predict.
load_failure_raises == [prediction_result |-> << >>, raised |-> "FileNotFoundError"]

\* except: return None, when a joblib.load of predict fails.
load_failure == [prediction_result |-> << >>, raised |-> "none"]

\* last_load is how the latest attempt of predict to load the two files ended:
\* "none" before any attempt, then "succeeded" or "failed".

\* A call that is not running.
IdleCall ==
    [at |-> "idle", yield_data |-> << >>, model_at_91 |-> "", reads |-> << >>,
     encoders_at_110 |-> {}, input_df |-> << >>, model_error |-> FALSE,
     prediction_result |-> << >>, raised |-> "none", response |-> << >>,
     inserted |-> 0]

\* No request is being served and nothing is loaded.
YieldIdle ==
    /\ model = "None"
    /\ label_encoders = << >>
    /\ is_trained_on_real_data = FALSE
    /\ predictions_collection = << >>
    /\ calls = [t \in Threads |-> IdleCall]
    /\ last_load = "none"

HTTPException(status_code, detail) ==
    <<[status_code |-> status_code, detail |-> detail, body |-> << >>]>>

\* Requests that are being served.
InFlight == {t \in Threads : calls[t].at # "idle"}

\* A request arrives at POST /predict.
Request(t, body) ==
    /\ calls[t].at = "idle"
    /\ Len(predictions_collection) + Cardinality(InFlight) < MaxDocs
    /\ calls' = [calls EXCEPT ![t] = [IdleCall EXCEPT !.at = "validate",
                                                      !.yield_data = body]]
    /\ UNCHANGED <<model, label_encoders, is_trained_on_real_data, files, db_up,
                   predictions_collection, last_load>>
    /\ UNCHANGED <<cropvars, webvars>>

\* An HTTPException raised inside the try comes out as a 500.
rewrapped(exception) ==
    <<[status_code |-> 500, detail |-> <<"Prediction failed">> \o exception[1].detail,
       body |-> << >>]>>

\* except HTTPException: raise, lines 69-70 of the route.
reraised(exception) == exception

\* Lines 15-23 of the route: the required fields.
Validate(t) ==
    /\ calls[t].at = "validate"
    /\ LET field == first_missing(calls[t].yield_data, 1)
       IN  calls' = [calls EXCEPT ![t] =
              IF field # ""
              THEN [@ EXCEPT !.at = "responded",
                             !.response = reraised(
                                 HTTPException(400, <<"Missing required field", field>>))]
              ELSE [@ EXCEPT !.at = "line_91"]]
    /\ UNCHANGED <<model, label_encoders, is_trained_on_real_data, files, db_up,
                   predictions_collection, last_load>>
    /\ UNCHANGED <<cropvars, webvars>>

\* predict, line 91: if self.model is None.
TestModel(t) ==
    /\ calls[t].at = "line_91"
    /\ calls' = [calls EXCEPT ![t] =
          [@ EXCEPT !.at = IF model = "None" THEN "line_94" ELSE "line_103",
                    !.model_at_91 = model]]
    /\ UNCHANGED <<model, label_encoders, is_trained_on_real_data, files, db_up,
                   predictions_collection, last_load>>
    /\ UNCHANGED <<cropvars, webvars>>

\* predict, line 94: self.model = joblib.load(...yield_model.pkl).
LoadModel(t) ==
    /\ calls[t].at = "line_94"
    /\ IF files.model
       THEN /\ model' = "RandomForest"
            /\ calls' = [calls EXCEPT ![t] =
                  [@ EXCEPT !.at = "line_95", !.reads = Append(@, "model")]]
       ELSE /\ model' = model
            /\ calls' = [calls EXCEPT ![t] =
                  [@ EXCEPT !.at = "line_30", !.reads = Append(@, "model"),
                            !.prediction_result = load_failure.prediction_result,
                            !.raised = load_failure.raised]]
    /\ last_load' = IF files.model THEN last_load ELSE "failed"
    /\ UNCHANGED <<label_encoders, is_trained_on_real_data, files, db_up,
                   predictions_collection>>
    /\ UNCHANGED <<cropvars, webvars>>

\* predict, line 95: self.label_encoders = joblib.load(...yield_encoders.pkl).
LoadEncoders(t) ==
    /\ calls[t].at = "line_95"
    /\ IF files.encoders
       THEN /\ label_encoders' = FittedEncoders
            /\ calls' = [calls EXCEPT ![t] =
                  [@ EXCEPT !.at = "line_96", !.reads = Append(@, "encoders")]]
       ELSE /\ label_encoders' = label_encoders
            /\ calls' = [calls EXCEPT ![t] =
                  [@ EXCEPT !.at = "line_30", !.reads = Append(@, "encoders"),
                            !.prediction_result = load_failure.prediction_result,
                            !.raised = load_failure.raised]]
    /\ last_load' = IF files.encoders THEN "succeeded" ELSE "failed"
    /\ UNCHANGED <<model, is_trained_on_real_data, files, db_up, predictions_collection>>
    /\ UNCHANGED <<cropvars, webvars>>

\* predict, line 96: self.is_trained_on_real_data = True.
SetTrained(t) ==
    /\ calls[t].at = "line_96"
    /\ is_trained_on_real_data' = TRUE
    /\ calls' = [calls EXCEPT ![t] = [@ EXCEPT !.at = "line_103"]]
    /\ UNCHANGED <<model, label_encoders, files, db_up, predictions_collection, last_load>>
    /\ UNCHANGED <<cropvars, webvars>>

\* predict, lines 103-121: the input frame and its encoding.
Encode(t) ==
    /\ calls[t].at = "line_103"
    /\ calls' = [calls EXCEPT ![t] =
          [@ EXCEPT !.at = "line_124",
                    !.encoders_at_110 = DOMAIN label_encoders,
                    !.input_df = encode(model_input_of(calls[t].yield_data),
                                        label_encoders)]]
    /\ UNCHANGED <<model, label_encoders, is_trained_on_real_data, files, db_up,
                   predictions_collection, last_load>>
    /\ UNCHANGED <<cropvars, webvars>>

\* predict, lines 124-139: the prediction and the returned dictionary, or None
\* when anything in the try raises.
RunModel(t) ==
    /\ calls[t].at = "line_124"
    /\ IF model_raises(calls[t].input_df)
       THEN calls' = [calls EXCEPT ![t] =
               [@ EXCEPT !.at = "line_30", !.model_error = TRUE,
                         !.prediction_result = << >>]]
       ELSE \E confidence \in confidences(is_trained_on_real_data), id \in random_ids :
               calls' = [calls EXCEPT ![t] =
                  [@ EXCEPT !.at = "line_30",
                            !.prediction_result =
                               <<[predicted_yield |-> model_predict(calls[t].input_df),
                                  confidence |-> confidence,
                                  recommendations |->
                                     generate_recommendations(
                                         model_input_of(calls[t].yield_data)),
                                  prediction_id |-> id,
                                  data_source |-> IF is_trained_on_real_data
                                                  THEN "real" ELSE "sample"]>>]]
    /\ UNCHANGED <<model, label_encoders, is_trained_on_real_data, files, db_up,
                   predictions_collection, last_load>>
    /\ UNCHANGED <<cropvars, webvars>>

\* Lines 30-31 of the route: if prediction_result is None.
none_result(t) ==
    [calls[t] EXCEPT !.at = "responded",
                     !.response = HTTPException(500, <<"Prediction model not available">>)]

\* The route after predict: an exception of predict goes to except Exception,
\* None is answered with the 500 of line 31.
AfterPredict(t) ==
    /\ calls[t].at = "line_30"
    /\ calls' = [calls EXCEPT ![t] =
          IF calls[t].raised # "none"
          THEN [@ EXCEPT !.at = "responded",
                         !.response = HTTPException(500, <<"Prediction failed", calls[t].raised>>)]
          ELSE IF calls[t].prediction_result = << >>
          THEN none_result(t)
          ELSE [@ EXCEPT !.at = "line_36"]]
    /\ UNCHANGED <<model, label_encoders, is_trained_on_real_data, files, db_up,
                   predictions_collection, last_load>>
    /\ UNCHANGED <<cropvars, webvars>>

\* The returned dictionary with the prediction_id that predict made up.
success_body_keeping_id(prediction_result, inserted_id) ==
    [predicted_yield |-> prediction_result.predicted_yield,
     confidence |-> prediction_result.confidence,
     recommendations |-> prediction_result.recommendations,
     data_source |-> prediction_result.data_source,
     prediction_id |-> prediction_result.prediction_id,
     success |-> TRUE,
     stored_in_db |-> TRUE]

\* Lines 62-67 of the route: the dictionary of predict, its prediction_id
\* replaced by the id of the inserted document.
success_body(prediction_result, inserted_id) ==
    [predicted_yield |-> prediction_result.predicted_yield,
     confidence |-> prediction_result.confidence,
     recommendations |-> prediction_result.recommendations,
     data_source |-> prediction_result.data_source,
     prediction_id |-> inserted_id,
     success |-> TRUE,
     stored_in_db |-> TRUE]

\* Lines 36-67 of the route: the document and the answer.  Without database
\* get_predictions_collection gives None and insert_one raises.
Store(t) ==
    /\ calls[t].at = "line_36"
    /\ IF ~db_up
       THEN /\ predictions_collection' = predictions_collection
            /\ calls' = [calls EXCEPT ![t] =
                  [@ EXCEPT !.at = "responded",
                            !.response = HTTPException(500, <<"Prediction failed", "AttributeError">>)]]
       ELSE LET r == calls[t].prediction_result[1]
                id == Len(predictions_collection) + 1
                doc == [id |-> id, type |-> "yield_prediction",
                        predicted_yield |-> r.predicted_yield,
                        data_source |-> r.data_source]
            IN  /\ predictions_collection' = Append(predictions_collection, doc)
                /\ calls' = [calls EXCEPT ![t] =
                      [@ EXCEPT !.at = "responded",
                                !.inserted = @ + 1,
                                !.response =
                                   <<[status_code |-> 200, detail |-> << >>,
                                      body |-> <<success_body(r, id)>>]>>]]
    /\ UNCHANGED <<model, label_encoders, is_trained_on_real_data, files, db_up,
                   last_load>>
    /\ UNCHANGED <<cropvars, webvars>>

\* The answer has gone to the client.
Respond(t) ==
    /\ calls[t].at = "responded"
    /\ calls' = [calls EXCEPT ![t] = IdleCall]
    /\ UNCHANGED <<model, label_encoders, is_trained_on_real_data, files, db_up,
                   predictions_collection, last_load>>
    /\ UNCHANGED <<cropvars, webvars>>

\* One step of the request served by t.
Serve(t) ==
    \/ Validate(t)
    \/ TestModel(t)
    \/ LoadModel(t)
    \/ LoadEncoders(t)
    \/ SetTrained(t)
    \/ Encode(t)
    \/ RunModel(t)
    \/ AfterPredict(t)
    \/ Store(t)
    \/ Respond(t)

\* ------------------------------------------------------------ other routes
\* No upload is being handled.
IdleDetect == [at |-> "idle", upload |-> << >>, response |-> << >>, written |-> 0]

\* No signup is being handled.
IdleSignup ==
    [at |-> "idle", user_data |-> << >>, existing_user |-> << >>,
     response |-> << >>, inserted |-> 0]

\* The three collections the dashboard reads, empty.
NoDocuments ==
    [predictions |-> << >>, recommendations |-> << >>, disease_reports |-> << >>]

\* No route is serving anything, nothing is stored or uploaded.
WebIdle ==
    /\ crop_response = << >>
    /\ uploads = << >>
    /\ detect = IdleDetect
    /\ collections = NoDocuments
    /\ dashboard = << >>
    /\ users = << >>
    /\ signups = [t \in Threads |-> IdleSignup]

\* ---------------------------------------------------------------- actions
\* The recommender before its first call.
CropIdle ==
    /\ pc = "idle"
    /\ input_data = << >>
    /\ result = NoResult
    /\ raised = "none"
    /\ matching_rules = << >>
    /\ rule = 0
    /\ remembered = << >>

Init ==
    /\ RULES \in Catalogs
    /\ pc = "idle"
    /\ input_data = << >>
    /\ result = NoResult
    /\ raised = "none"
    /\ matching_rules = << >>
    /\ rule = 0
    /\ remembered = << >>
    /\ YieldIdle
    /\ files = [model |-> TRUE, encoders |-> TRUE]
    /\ db_up = TRUE
    /\ WebIdle

\* A caller hands a request dictionary to recommend.
Call(input) ==
    /\ pc = "idle"
    /\ pc' = "called"
    /\ input_data' = input
    /\ UNCHANGED <<RULES, result, raised, matching_rules, rule, remembered>>
    /\ UNCHANGED <<yieldvars, webvars>>

\* recommend runs to its return statement or to the exception.
Recommend ==
    /\ pc = "called"
    /\ LET out == recommend(input_data)
       IN  /\ result' = out.result
           /\ raised' = out.raised
           /\ matching_rules' = out.matching_rules
           /\ rule' = out.rule
           /\ RULES' = out.rules
    /\ pc' = "done"
    /\ UNCHANGED <<input_data, remembered>>
    /\ UNCHANGED <<yieldvars, webvars>>

\* The locals of a finished call are gone.
Forget ==
    /\ pc' = "idle"
    /\ input_data' = << >>
    /\ result' = NoResult
    /\ raised' = "none"
    /\ matching_rules' = << >>
    /\ rule' = 0
    /\ UNCHANGED RULES
    /\ UNCHANGED <<yieldvars, webvars>>

\* The caller has consumed the outcome.  When an earlier call is remembered,
\* this one is counted as served after it (the count stops at MaxBetween).
Return ==
    /\ pc = "done"
    /\ Forget
    /\ remembered' =
          IF remembered # << >> /\ remembered[1].between < MaxBetween
          THEN <<[remembered[1] EXCEPT !.between = @ + 1]>>
          ELSE remembered

\* The caller keeps the request and the outcome of the call, to compare a
\* later call with it.
Remember ==
    /\ pc = "done"
    /\ Forget
    /\ remembered' = <<[input_data |-> input_data, result |-> result,
                        raised |-> raised, between |-> 0]>>

Next ==
    \/ \E input \in Inputs : Call(input)
    \/ Recommend
    \/ Return

Spec == Init /\ [][Next]_vars

\* Requests of the runs in which calls are compared: three districts, one of
\* them in no catalog, with an accepted and an unaccepted irrigation.
RepeatInputs ==
    {[district |-> d, season |-> <<"Kharif">>, soil_type |-> Red_soil,
      irrigation_source |-> ir]
        : d \in {<<"Siruguppa">>, <<"Gangavathi">>, <<"Unknown", " ", "Place">>},
          ir \in {<<"Canal">>, <<"Drip">>}}

NextRepeat ==
    \/ \E input \in RepeatInputs : Call(input)
    \/ Recommend
    \/ Return
    \/ Remember

\* Sequences of calls of which one is remembered.
SpecRepeat == Init /\ [][NextRepeat]_vars

\* The yield route served one request at a time, with every state of the two
\* files and of the database.
InitYield ==
    /\ RULES = ShippedRULES
    /\ CropIdle
    /\ YieldIdle
    /\ files \in [model : BOOLEAN, encoders : BOOLEAN]
    /\ db_up \in BOOLEAN
    /\ WebIdle

NextYield ==
    \/ \E body \in YieldBodies : Request(1, body)
    \/ Serve(1)

SpecYield == InitYield /\ [][NextYield]_vars

\* Two requests served at a time, their steps interleaved line by line.
NextRace ==
    \/ \E t \in Threads, body \in RaceBodies : Request(t, body)
    \/ \E t \in Threads : Serve(t)

SpecRace == InitYield /\ [][NextRace]_vars

\* ------------------------------------------------------------- crop route
StateValues == {<<"Karnataka">>, <<"Goa">>}

\* Bodies of POST /api/crops/recommend that pass CropRequestModel: the five
\* required strings, written with the same whitespace around them.
Payloads ==
    {[state |-> lp \o st \o rp, district |-> lp \o d \o rp,
      soil_type |-> lp \o so \o rp, season |-> lp \o se \o rp,
      irrigation_source |-> lp \o ir \o rp]
        : st \in StateValues, d \in DistrictValues, so \in SoilValues,
          se \in SeasonValues, ir \in IrrigationValues,
          lp \in {<< >>, Spaces}, rp \in {<< >>, Tabs}}

\* model_input of the route.
crop_model_input(payload) ==
    [state |-> payload.state, district |-> payload.district,
     soil_type |-> payload.soil_type, season |-> payload.season,
     irrigation_source |-> payload.irrigation_source]

\* An entry of recommendations that lost its label.
normalized_without_label(item) ==
    [crop |-> item.crop, name |-> item.crop, label |-> "", score |-> float(item.score)]

\* The entry of recommendations made of one entry of top_predictions.
normalized(item) ==
    [crop |-> item.crop, name |-> item.crop, label |-> item.crop,
     score |-> float(item.score)]

\* The list sent when recommendations is empty.
safety_recommendations ==
    <<[crop |-> "Paddy", name |-> "Paddy", label |-> "Paddy", score |-> 40],
      [crop |-> "Maize", name |-> "Maize", label |-> "Maize", score |-> 35],
      [crop |-> "Chickpea", name |-> "Chickpea", label |-> "Chickpea", score |-> 25]>>

\* The answer of get_crop_recommendations for what recommend returned or
\* raised: the JSONResponse of line 87 or the HTTPException of line 93.
crop_route_response(returned, exception) ==
    IF exception # "none"
    THEN HTTPException(500, <<"Crop recommendation model not available">>)
    ELSE LET raw_preds == returned.top_predictions
             normalised == [k \in 1..Len(raw_preds) |-> normalized(raw_preds[k])]
             recommendations == IF normalised = << >> THEN safety_recommendations
                                ELSE normalised
         IN  <<[status_code |-> 200, detail |-> << >>,
                body |-> <<[status |-> "success",
                            recommended_crop |-> returned.recommended_crop,
                            recommendations |-> recommendations,
                            top_predictions |-> recommendations]>>]>>

\* The route has the outcome of recommend and builds its answer.
RouteRespond ==
    /\ pc = "done"
    /\ pc' = "responded"
    /\ crop_response' = crop_route_response(result, raised)
    /\ UNCHANGED <<RULES, input_data, result, raised, matching_rules, rule, remembered>>
    /\ UNCHANGED <<yieldvars, diseasevars, dashvars, authvars>>

\* The answer has gone to the client.
RouteReturn ==
    /\ pc = "responded"
    /\ pc' = "idle"
    /\ input_data' = << >>
    /\ result' = NoResult
    /\ raised' = "none"
    /\ matching_rules' = << >>
    /\ rule' = 0
    /\ crop_response' = << >>
    /\ UNCHANGED <<RULES, remembered>>
    /\ UNCHANGED <<yieldvars, diseasevars, dashvars, authvars>>

\* The server as shipped: the catalog is the table of crop_model.py.
InitRoute ==
    /\ RULES = ShippedRULES
    /\ CropIdle
    /\ YieldIdle
    /\ files = [model |-> TRUE, encoders |-> TRUE]
    /\ db_up = TRUE
    /\ WebIdle

NextRoute ==
    \/ \E payload \in Payloads : Call(crop_model_input(payload))
    \/ Recommend
    \/ RouteRespond
    \/ RouteReturn

SpecRoute == InitRoute /\ [][NextRoute]_vars

\* ---------------------------------------------------------- disease route
\* Content types of an upload, split after the slash; << >> is an upload
\* without content type (None).
ContentTypes ==
    {<<"image/", "png">>, <<"image/", "jpeg">>, <<"text/", "plain">>,
     <<"application/", "pdf">>, << >>}

\* Extensions of the uploaded file names (os.path.splitext(...)[1]).
Extensions == {".png", ".jpg", ".txt"}

CropTypes == {"tomato", "Rice"}

Uploaded == [content_type : ContentTypes, extension : Extensions, crop_type : CropTypes]

\* image.content_type.startswith('image/')
startswith_image(content_type) == Len(content_type) > 0 /\ content_type[1] = "image/"

\* What clip_disease_detection returns: the label CLIP scores best, or the
\* mock detection when CLIP raises.
Detections ==
    {[disease_name |-> "Healthy", detection_method |-> "CLIP"],
     [disease_name |-> "Early Blight Disease", detection_method |-> "CLIP"],
     [disease_name |-> "Late Blight", detection_method |-> "Mock"]}

\* except Exception, lines 142-144 of detect_disease: whatever was raised in
\* the try, the HTTPException of line 115 included, becomes this 500.
detect_except(exception) == HTTPException(500, <<"Disease detection failed">>)

\* An upload arrives at POST /detect.
DetectRequest(upload) ==
    /\ detect.at = "idle"
    /\ Len(uploads) < MaxUploads
    /\ detect' = [IdleDetect EXCEPT !.at = "line_114", !.upload = upload]
    /\ UNCHANGED uploads
    /\ UNCHANGED <<cropvars, yieldvars, routevars, dashvars, authvars>>

\* Lines 114-115: the content type.  None has no startswith.
CheckContentType ==
    /\ detect.at = "line_114"
    /\ detect' =
          IF detect.upload.content_type = << >>
          THEN [detect EXCEPT !.at = "responded",
                              !.response = detect_except("AttributeError")]
          ELSE IF ~startswith_image(detect.upload.content_type)
          THEN [detect EXCEPT !.at = "responded",
                              !.response = detect_except(
                                  HTTPException(400, <<"File must be an image">>))]
          ELSE [detect EXCEPT !.at = "line_117"]
    /\ UNCHANGED uploads
    /\ UNCHANGED <<cropvars, yieldvars, routevars, dashvars, authvars>>

\* Lines 117-124: the upload is written under a new name with its extension.
WriteUpload ==
    /\ detect.at = "line_117"
    /\ uploads' = Append(uploads, [name |-> Len(uploads) + 1,
                                   extension |-> detect.upload.extension])
    /\ detect' = [detect EXCEPT !.at = "line_126", !.written = @ + 1]
    /\ UNCHANGED <<cropvars, yieldvars, routevars, dashvars, authvars>>

\* Lines 126-140: the detection and the answer.
Detect ==
    /\ detect.at = "line_126"
    /\ \E detection \in Detections :
          detect' = [detect EXCEPT
                        !.at = "responded",
                        !.response =
                           <<[status_code |-> 200, detail |-> << >>,
                              body |-> <<[disease_name |-> detection.disease_name,
                                          detection_method |-> detection.detection_method,
                                          image_id |-> uploads[Len(uploads)],
                                          crop_type |-> detect.upload.crop_type]>>]>>]
    /\ UNCHANGED uploads
    /\ UNCHANGED <<cropvars, yieldvars, routevars, dashvars, authvars>>

\* The answer has gone to the client.
DetectReturn ==
    /\ detect.at = "responded"
    /\ detect' = IdleDetect
    /\ UNCHANGED uploads
    /\ UNCHANGED <<cropvars, yieldvars, routevars, dashvars, authvars>>

NextDetect ==
    \/ \E upload \in Uploaded : DetectRequest(upload)
    \/ CheckContentType
    \/ WriteUpload
    \/ Detect
    \/ DetectReturn

SpecDetect == InitRoute /\ [][NextDetect]_vars

\* --------------------------------------------------------------- dashboard
\* A stored document, as far as the dashboard reads it: its user and its
\* created_at, << >> when the document has none, else <<n>> for the n-th
\* instant (ISO strings of datetimes are ordered as the instants are).
Doc(user_id, created_at) == [user_id |-> user_id, created_at |-> created_at]

UserIds == {"u1", "u2"}

\* Contents of one collection.
DocLists ==
    {<< >>,
     <<Doc("u1", << >>)>>,
     <<Doc("u1", << >>), Doc("u2", <<9>>), Doc("u1", << >>)>>,
     <<Doc("u1", <<7>>), Doc("u2", << >>)>>,
     <<Doc("u1", <<2>>), Doc("u1", << >>), Doc("u1", <<5>>)>>,
     <<Doc("u1", <<3>>), Doc("u1", <<1>>), Doc("u1", <<6>>), Doc("u1", <<2>>),
       Doc("u1", <<5>>), Doc("u1", <<4>>)>>}

\* find({"user_id": user_id}): the documents of the user, in stored order.
RECURSIVE find(_, _)
find(docs, user_id) ==
    IF docs = << >> THEN << >>
    ELSE IF docs[1].user_id = user_id
    THEN <<docs[1]>> \o find(Tail(docs), user_id)
    ELSE find(Tail(docs), user_id)

\* MongoDB orders a missing created_at as null, below every value.
mongo_before(a, b) ==
    /\ a.created_at # << >>
    /\ b.created_at = << >> \/ a.created_at[1] > b.created_at[1]

\* sort("created_at", -1): doc put into a list that is sorted already.
RECURSIVE mongo_place(_, _)
mongo_place(doc, sorted) ==
    IF sorted = << >> THEN <<doc>>
    ELSE IF mongo_before(doc, sorted[1]) THEN <<doc>> \o sorted
    ELSE <<sorted[1]>> \o mongo_place(doc, Tail(sorted))

RECURSIVE mongo_sort(_, _)
mongo_sort(docs, sorted) ==
    IF docs = << >> THEN sorted
    ELSE mongo_sort(Tail(docs), mongo_place(docs[1], sorted))

\* list(collection.find({"user_id": user_id}).sort("created_at", -1).limit(5))
recent(docs, user_id) == Take(mongo_sort(find(docs, user_id), << >>), 5)

\* _safe_timestamp and the entry of recent_activity made of a document.
activity(type, doc) == [type |-> type, timestamp |-> doc.created_at]

\* key(a) < key(b) for key = (timestamp is None, timestamp): False before
\* True, then the timestamps; two keys with None are equal.
key_less(a, b) ==
    IF (a.timestamp = << >>) # (b.timestamp = << >>)
    THEN b.timestamp = << >>
    ELSE a.timestamp # << >> /\ a.timestamp[1] < b.timestamp[1]

\* list.sort(key=..., reverse=True): x put into a list that is sorted
\* already, behind the entries whose key is not smaller.
RECURSIVE activity_place(_, _)
activity_place(x, sorted) ==
    IF sorted = << >> THEN <<x>>
    ELSE IF key_less(sorted[1], x) THEN <<x>> \o sorted
    ELSE <<sorted[1]>> \o activity_place(x, Tail(sorted))

RECURSIVE activity_sort(_, _)
activity_sort(list, sorted) ==
    IF list = << >> THEN sorted
    ELSE activity_sort(Tail(list), activity_place(list[1], sorted))

\* The entries of a list of documents.
activities(type, docs) == [k \in 1..Len(docs) |-> activity(type, docs[k])]

\* recent_activity of get_user_dashboard.
recent_activity_of(user_id) ==
    LET recent_predictions == recent(collections.predictions, user_id)
        recent_recommendations == recent(collections.recommendations, user_id)
        recent_disease_reports == recent(collections.disease_reports, user_id)
        all == activities("yield_prediction", recent_predictions)
               \o activities("crop_recommendation", recent_recommendations)
               \o activities("disease_detection", recent_disease_reports)
    IN  Take(activity_sort(all, << >>), 5)

\* GET /api/dashboard/{user_id}: the whole handler.  Without database the
\* collections are None and count_documents raises.
GetDashboard(user_id) ==
    /\ dashboard = << >>
    /\ dashboard' =
          IF ~db_up
          THEN HTTPException(500, <<"Dashboard error", "AttributeError">>)
          ELSE <<[status_code |-> 200, detail |-> << >>,
                  body |-> <<[user_id |-> user_id,
                              total_predictions |->
                                 Len(find(collections.predictions, user_id)),
                              total_recommendations |->
                                 Len(find(collections.recommendations, user_id)),
                              total_disease_reports |->
                                 Len(find(collections.disease_reports, user_id)),
                              recent_activity |-> recent_activity_of(user_id)]>>]>>
    /\ UNCHANGED collections
    /\ UNCHANGED <<cropvars, yieldvars, routevars, diseasevars, authvars>>

\* The answer has gone to the client.
DashboardReturn ==
    /\ dashboard # << >>
    /\ dashboard' = << >>
    /\ UNCHANGED collections
    /\ UNCHANGED <<cropvars, yieldvars, routevars, diseasevars, authvars>>

\* The dashboard over every content of the three collections.
InitDashboard ==
    /\ RULES = ShippedRULES
    /\ CropIdle
    /\ YieldIdle
    /\ files = [model |-> TRUE, encoders |-> TRUE]
    /\ db_up \in BOOLEAN
    /\ crop_response = << >>
    /\ uploads = << >>
    /\ detect = IdleDetect
    /\ collections \in [predictions : DocLists, recommendations : DocLists,
                        disease_reports : DocLists]
    /\ dashboard = << >>
    /\ users = << >>
    /\ signups = [t \in Threads |-> IdleSignup]

NextDashboard ==
    \/ \E user_id \in UserIds : GetDashboard(user_id)
    \/ DashboardReturn

SpecDashboard == InitDashboard /\ [][NextDashboard]_vars

\* ------------------------------------------------------------------ signup
\* Bodies of POST /api/auth/signup, as far as the route looks at them.
Signups ==
    [email : {"asha@example.com", "ravi@example.com"}, language : {"en", "kn"}]

\* Signups that are being served.
SigningUp == {t \in Threads : signups[t].at # "idle"}

\* A signup arrives.
SignupRequest(t, user_data) ==
    /\ signups[t].at = "idle"
    /\ Len(users) + Cardinality(SigningUp) < MaxUsers
    /\ signups' = [signups EXCEPT ![t] = [IdleSignup EXCEPT !.at = "line_24",
                                                            !.user_data = user_data]]
    /\ UNCHANGED users
    /\ UNCHANGED <<cropvars, yieldvars, routevars, diseasevars, dashvars>>

\* Lines 24-27: the users collection, None without database.
GetUsersCollection(t) ==
    /\ signups[t].at = "line_24"
    /\ signups' = [signups EXCEPT ![t] =
          IF ~db_up
          THEN [@ EXCEPT !.at = "responded",
                         !.response = HTTPException(500, <<"Database connection failed">>)]
          ELSE [@ EXCEPT !.at = "line_30"]]
    /\ UNCHANGED users
    /\ UNCHANGED <<cropvars, yieldvars, routevars, diseasevars, dashvars>>

\* users_collection.find_one({"email": email}): the first stored user with
\* the email, None (<< >>) when there is none.
find_one(email) ==
    IF \E k \in 1..Len(users) : users[k].email = email
    THEN <<users[CHOOSE k \in 1..Len(users) :
                    /\ users[k].email = email
                    /\ \A l \in 1..(k - 1) : users[l].email # email]>>
    ELSE << >>

\* Lines 30-36: the check for a user with the email.
FindUser(t) ==
    /\ signups[t].at = "line_30"
    /\ LET existing_user == find_one(signups[t].user_data.email)
       IN  signups' = [signups EXCEPT ![t] =
              IF existing_user # << >>
              THEN [@ EXCEPT !.at = "responded",
                             !.existing_user = existing_user,
                             !.response =
                                HTTPException(400, <<"auth.email_exists",
                                                     signups[t].user_data.language>>)]
              ELSE [@ EXCEPT !.at = "line_51"]]
    /\ UNCHANGED users
    /\ UNCHANGED <<cropvars, yieldvars, routevars, diseasevars, dashvars>>

\* Lines 38-68: the user document, insert_one and the answer.
InsertUser(t) ==
    /\ signups[t].at = "line_51"
    /\ LET user_id == Len(users) + 1
           email == signups[t].user_data.email
       IN  /\ users' = Append(users, [id |-> user_id, email |-> email])
           /\ signups' = [signups EXCEPT ![t] =
                 [@ EXCEPT !.at = "responded",
                           !.inserted = @ + 1,
                           !.response =
                              <<[status_code |-> 200, detail |-> << >>,
                                 body |-> <<[id |-> user_id, email |-> email]>>]>>]]
    /\ UNCHANGED <<cropvars, yieldvars, routevars, diseasevars, dashvars>>

\* The answer has gone to the client.
SignupReturn(t) ==
    /\ signups[t].at = "responded"
    /\ signups' = [signups EXCEPT ![t] = IdleSignup]
    /\ UNCHANGED users
    /\ UNCHANGED <<cropvars, yieldvars, routevars, diseasevars, dashvars>>

\* Signups served at the same time (by the workers that share the database),
\* their steps interleaved.
InitSignup ==
    /\ RULES = ShippedRULES
    /\ CropIdle
    /\ YieldIdle
    /\ files = [model |-> TRUE, encoders |-> TRUE]
    /\ db_up \in BOOLEAN
    /\ WebIdle

NextSignup ==
    \/ \E t \in Threads, user_data \in Signups : SignupRequest(t, user_data)
    \/ \E t \in Threads : GetUsersCollection(t)
    \/ \E t \in Threads : FindUser(t)
    \/ \E t \in Threads : InsertUser(t)
    \/ \E t \in Threads : SignupReturn(t)

SpecSignup == InitSignup /\ [][NextSignup]_vars

\* ------------------------------------------------- vocabulary of the claims
\* The query of the call in progress, as the matcher compares it.
Field(k) == strip(Get(input_data, k, << >>))

Range(list) == {list[k] : k \in 1..Len(list)}

\* Rule i has the district and season of the query.
Candidate(i) ==
    /\ RULES[i].district = Field("district")
    /\ RULES[i].season = Field("season")
AcceptsSoil(i) == Field("soil_type") \in Range(RULES[i].soil_types)
AcceptsWater(i) == Field("irrigation_source") \in Range(RULES[i].irrigation)

Candidates == {i \in 1..Len(RULES) : Candidate(i)}
ExactBucket == {i \in Candidates : AcceptsSoil(i) /\ AcceptsWater(i)}
SoilOnlyBucket == {i \in Candidates : AcceptsSoil(i) /\ ~AcceptsWater(i)}
ResidualBucket == {i \in Candidates : ~AcceptsSoil(i)}
SelectedBucket ==
    IF ExactBucket # {} THEN ExactBucket
    ELSE IF SoilOnlyBucket # {} THEN SoilOnlyBucket
    ELSE ResidualBucket

Returned == pc = "done" /\ raised = "none"

GenericFallback ==
    [recommended_crop |-> "Paddy",
     top_predictions |-> << [crop |-> "Paddy", score |-> 40],
                            [crop |-> "Maize", score |-> 35],
                            [crop |-> "Chickpea", score |-> 25] >>]

\* Every returned (crop, score) is an option of rule i, and so is the
\* recommended crop.
TakenFrom(i) ==
    /\ \A k \in 1..Len(result.top_predictions) :
          <<result.top_predictions[k].crop, result.top_predictions[k].score>>
              \in Range(RULES[i].crops)
    /\ \E o \in Range(RULES[i].crops) : o[1] = result.recommended_crop

\* Position of the option with crop label c in a rule's option list.
Pos(c, crops) == CHOOSE k \in 1..Len(crops) : crops[k][1] = c

\* The options of a rule that are not among the returned predictions.
Dropped(i) ==
    {o \in Range(RULES[i].crops) :
        \A k \in 1..Len(result.top_predictions) :
            result.top_predictions[k].crop # o[1]}

\* ----------------------------------------------------------------- claims

\* C1: every call of recommend returns without raising, and the result has a
\* recommended crop and between 1 and 3 predictions.  (Refuted: for a rule
\* whose option list is empty, crops_sorted[0] raises IndexError.)
C1_NeverFails ==
    pc = "done" =>
        /\ raised = "none"
        /\ result.recommended_crop # ""
        /\ Len(result.top_predictions) \in 1..3

\* C2: when no rule of the catalog has the trimmed district and season of the
\* query, recommend returns exactly the generic fallback, Paddy 0.40,
\* Maize 0.35, Chickpea 0.25 in that order, whatever the soil and irrigation.
C2_NoCandidateGivesFallback ==
    (pc = "done" /\ Candidates = {}) =>
        /\ raised = "none"
        /\ result = GenericFallback

C2_Witness ==
    /\ pc = "done"
    /\ RULES = ShippedRULES
    /\ Candidates = {}
    /\ Field("district") = <<"Unknown", " ", "Place">>
    /\ Field("season") = <<"Kharif">>
    /\ Field("soil_type") = Red_soil
    /\ Field("irrigation_source") = <<"Canal">>
    /\ input_data["district"] # Field("district")
    /\ result = GenericFallback

\* C3: when at least one rule has the district and season of the query, the
\* winning rule is one of them (a residual one when none of them accepts the
\* soil) and what is returned is taken from it: never the generic fallback.
C3_FallbackOnlyWithoutCandidate ==
    (pc = "done" /\ Candidates # {}) =>
        /\ rule \in Candidates
        /\ (\A i \in Candidates : ~AcceptsSoil(i)) => rule \in ResidualBucket
        /\ raised = "none" => (TakenFrom(rule) /\ result # GenericFallback)

C3_Witness ==
    /\ Returned
    /\ Candidates # {}
    /\ \A i \in Candidates : ~AcceptsSoil(i) /\ ~AcceptsWater(i)
    /\ rule \in ResidualBucket
    /\ TakenFrom(rule)

\* C4: when some rule matches district, season, soil and irrigation together,
\* the rule whose options are returned matches all four, also when a rule of
\* the same district and season that matches on soil alone, or on neither,
\* comes earlier in the catalog.
C4_ExactBucketWins ==
    (pc = "done" /\ ExactBucket # {}) =>
        /\ rule \in ExactBucket
        /\ raised = "none" => TakenFrom(rule)

C4_Witness ==
    /\ Returned
    /\ rule \in ExactBucket
    /\ \E i \in SoilOnlyBucket : i < rule
    /\ TakenFrom(rule)

\* C5: when no rule matches all four fields but a rule of the query's district
\* and season accepts the soil, the returned options come from a rule that
\* accepts the soil: not from a residual rule, not from the generic fallback.
C5_SoilOnlyBucketNext ==
    (pc = "done" /\ ExactBucket = {} /\ SoilOnlyBucket # {}) =>
        /\ rule \in SoilOnlyBucket
        /\ raised = "none" => (TakenFrom(rule) /\ result # GenericFallback)

C5_Witness ==
    /\ Returned
    /\ ExactBucket = {}
    /\ rule \in SoilOnlyBucket
    /\ \E i \in ResidualBucket : i < rule
    /\ TakenFrom(rule)

\* C6: the result is built from one rule, the first in catalog order of the
\* selected bucket: every returned (crop, score) is an option of that rule,
\* unchanged, and the options of the other qualifying rules are not merged in.
C6_FirstRuleOfBucketOnly ==
    (pc = "done" /\ Candidates # {}) =>
        /\ rule \in SelectedBucket
        /\ \A i \in SelectedBucket : rule <= i
        /\ matching_rules # << >> /\ Range(matching_rules) = SelectedBucket
        /\ raised = "none" =>
              /\ TakenFrom(rule)
              /\ \A i \in Candidates :
                    RULES[i] # RULES[rule] =>
                        \A k \in 1..Len(result.top_predictions) :
                            \A o \in Range(RULES[i].crops) :
                                o[1] # result.top_predictions[k].crop

C6_Witness ==
    /\ Returned
    /\ \E i \in SelectedBucket : i > rule /\ RULES[i] # RULES[rule]
                                          /\ RULES[i].crops # << >>
    /\ TakenFrom(rule)

\* C7: the scores of the predictions never increase along the list, and when
\* the winning rule has more than 3 options the result holds 3 of them, none
\* with a lower weight than an option that was dropped.
C7_DescendingTop3 ==
    Returned =>
        /\ \A k \in 1..Len(result.top_predictions) - 1 :
              result.top_predictions[k].score >= result.top_predictions[k + 1].score
        /\ (rule # 0 /\ Len(RULES[rule].crops) > 3) =>
              /\ Len(result.top_predictions) = 3
              /\ TakenFrom(rule)
              /\ \A o \in Dropped(rule) :
                    \A k \in 1..3 : result.top_predictions[k].score >= o[2]

C7_Witness ==
    /\ Returned
    /\ rule # 0
    /\ Len(RULES[rule].crops) = 4
    /\ RULES[rule].crops[1][2] < RULES[rule].crops[2][2]
    /\ Cardinality(Dropped(rule)) = 1
    /\ Len(result.top_predictions) = 3

\* C8: the sort is stable: options of the winning rule with equal weight come
\* out in the order of the rule's list, and when equal weights lie on both
\* sides of the cut after the third, the one listed earlier is kept
\* (Gangavathi/Kharif keeps Maize 0.15 and drops Cotton 0.15).
C8_StableSort ==
    (Returned /\ rule # 0) =>
        LET crops == RULES[rule].crops
            top == result.top_predictions
        IN  /\ \A k, l \in 1..Len(top) :
                  (k < l /\ top[k].score = top[l].score) =>
                      Pos(top[k].crop, crops) < Pos(top[l].crop, crops)
            /\ \A o \in Dropped(rule) : \A k \in 1..Len(top) :
                  top[k].score = o[2] => Pos(top[k].crop, crops) < Pos(o[1], crops)
            /\ (RULES = ShippedRULES /\ Field("district") = <<"Gangavathi">>
                    /\ Field("season") = <<"Kharif">>) =>
                  top = << [crop |-> "Paddy", score |-> 50],
                           [crop |-> "Groundnut", score |-> 20],
                           [crop |-> "Maize", score |-> 15] >>

C8_Witness ==
    /\ Returned
    /\ RULES = ShippedRULES
    /\ Field("district") = <<"Gangavathi">>
    /\ Field("season") = <<"Kharif">>
    /\ result.top_predictions[3] = [crop |-> "Maize", score |-> 15]
    /\ Dropped(rule) = {<<"Cotton", 15>>}

\* C9: the number of predictions is the smaller of 3 and the number n >= 1 of
\* options of the winning rule: a rule of 1 or 2 options gives 1 or 2
\* predictions, not 3.
C9_AsManyAsTheRuleHas ==
    (Returned /\ rule # 0) =>
        LET n == Len(RULES[rule].crops)
        IN  Len(result.top_predictions) = IF n < 3 THEN n ELSE 3

C9_Witness ==
    /\ Returned
    /\ rule # 0
    /\ Len(RULES[rule].crops) = 1
    /\ Len(result.top_predictions) = 1

\* C10: in every result, the fallback too, recommended_crop is the crop of the
\* first prediction, and no option of the winning rule (of the fallback list,
\* when there is no winning rule) has a higher weight than that prediction.
C10_RecommendedIsTheBest ==
    Returned =>
        /\ result.recommended_crop = result.top_predictions[1].crop
        /\ rule # 0 =>
              /\ <<result.top_predictions[1].crop, result.top_predictions[1].score>>
                    \in Range(RULES[rule].crops)
              /\ \A o \in Range(RULES[rule].crops) :
                    result.top_predictions[1].score >= o[2]
        /\ rule = 0 =>
              \A k \in 1..Len(result.top_predictions) :
                  result.top_predictions[1].score >= result.top_predictions[k].score

C10_Witness ==
    /\ Returned
    /\ rule # 0
    /\ RULES[rule].crops[1][1] # result.recommended_crop
    /\ result.recommended_crop = "Wheat"
    /\ result.top_predictions[1] = [crop |-> "Wheat", score |-> 60]

\* s without its leading and trailing whitespace, said without str.strip():
\* the piece of s with only whitespace before and after it that neither
\* starts nor ends with whitespace.
Trimmed(s) ==
    CHOOSE t \in {SubSeq(s, i, j) : i \in 1..Len(s) + 1, j \in 0..Len(s)} :
        \E i \in 1..Len(s) + 1, j \in 0..Len(s) :
            /\ t = SubSeq(s, i, j)
            /\ \A k \in 1..Len(s) : (k < i \/ k > j) => IsSpace(s[k])
            /\ t # << >> => (~IsSpace(t[1]) /\ ~IsSpace(t[Len(t)]))
            /\ t = << >> => \A k \in 1..Len(s) : IsSpace(s[k])

\* a and b are different strings that are equal once put in lower case.
CaseOnly(a, b) == a # b /\ lower(a) = lower(b)

Min(S) == CHOOSE m \in S : \A n \in S : m <= n

NoDuplicates(list) == Cardinality(Range(list)) = Len(list)

\* The three lists of _match_rules for the query of the call in progress.
ListsOfCall ==
    match_lists(Get(input_data, "district", << >>), Get(input_data, "season", << >>),
                Get(input_data, "soil_type", << >>),
                Get(input_data, "irrigation_source", << >>))

\* C11: every rule with the district and season of the query is in exactly one
\* of the three lists: the exact list iff it accepts soil and irrigation, the
\* soil list iff it accepts the soil but not the irrigation, the residual list
\* otherwise (also when it accepts the irrigation but not the soil); a rule of
\* another district or season is in none.
C11_OneBucketPerCandidate ==
    pc = "done" =>
        LET b == ListsOfCall
        IN  /\ Range(b.exact_matches) = ExactBucket
            /\ Range(b.soil_matches) = SoilOnlyBucket
            /\ Range(b.season_matches) = ResidualBucket
            /\ NoDuplicates(b.exact_matches \o b.soil_matches \o b.season_matches)
            /\ \A i \in 1..Len(RULES) :
                  ~Candidate(i) =>
                      i \notin Range(b.exact_matches \o b.soil_matches \o b.season_matches)
            /\ Range(matching_rules) = SelectedBucket

C11_Witness ==
    /\ pc = "done"
    /\ Len(RULES) = 2
    /\ \E i \in ResidualBucket : AcceptsWater(i)
    /\ SoilOnlyBucket # {}
    /\ Range(ListsOfCall.season_matches) = ResidualBucket
    /\ Range(ListsOfCall.soil_matches) = SoilOnlyBucket

\* C12: whitespace before and after the four query fields does not count: the
\* outcome of the call is the outcome recommend gives for the same query with
\* every field trimmed.
C12_PaddingIsInsignificant ==
    pc = "done" =>
        LET trimmed == [k \in DOMAIN input_data |-> Trimmed(input_data[k])]
            out == recommend(trimmed)
        IN  /\ out.result = result
            /\ out.raised = raised

C12_Witness ==
    /\ Returned
    /\ DOMAIN input_data = Keys
    /\ \A k \in Keys : /\ Trimmed(input_data[k]) # << >>
                       /\ input_data[k][1] = " "
                       /\ input_data[k][Len(input_data[k])] = "\t"
    /\ ExactBucket # {}
    /\ result # GenericFallback

\* C13: matching is case-sensitive: a query whose district, or whose season,
\* equals a catalog value only up to letter case matches no rule and gets the
\* generic fallback; a soil that equals an accepted soil only up to letter case
\* is not accepted, so when no candidate accepts it as written the residual
\* list is used and its first rule wins.
C13_CaseSensitive ==
    pc = "done" =>
        /\ ( /\ \E i \in 1..Len(RULES) : CaseOnly(Field("district"), RULES[i].district)
             /\ \A i \in 1..Len(RULES) : RULES[i].district # Field("district") )
           => (matching_rules = << >> /\ raised = "none" /\ result = GenericFallback)
        /\ ( /\ \E i \in 1..Len(RULES) : CaseOnly(Field("season"), RULES[i].season)
             /\ \A i \in 1..Len(RULES) : RULES[i].season # Field("season") )
           => (matching_rules = << >> /\ raised = "none" /\ result = GenericFallback)
        /\ ( /\ Candidates # {}
             /\ \A i \in Candidates : ~AcceptsSoil(i)
             /\ \E i \in Candidates : \E so \in Range(RULES[i].soil_types) :
                    CaseOnly(Field("soil_type"), so) )
           => (Range(matching_rules) = Candidates /\ rule = Min(Candidates))

C13_Witness ==
    /\ pc = "done"
    /\ RULES = ShippedRULES
    /\ Field("district") = <<"siruguppa">>
    /\ Field("season") = <<"Kharif">>
    /\ Field("soil_type") = Red_soil
    /\ result = GenericFallback

\* A soil written in another case, with a rule that would accept it behind a
\* rule that would not.
C13_SoilCaseReached ==
    /\ Returned
    /\ Len(RULES) = 2
    /\ Field("soil_type") = <<"red", " ", "soil">>
    /\ rule = 1
    /\ \E so \in Range(RULES[2].soil_types) : CaseOnly(Field("soil_type"), so)
    /\ \A so \in Range(RULES[1].soil_types) : ~CaseOnly(Field("soil_type"), so)

\* C14: with the shipped RULES, (Siruguppa, Kharif, Red soil, Canal) is an exact
\* match and gives Paddy with Paddy 0.55, Maize 0.25, Cotton 0.12;
\* (Siruguppa, Kharif, Red soil, Drip) goes through the soil list to the same
\* rule and gives the same output.
C14_SiruguppaKharif ==
    ( /\ pc = "done"
      /\ RULES = ShippedRULES
      /\ Field("district") = <<"Siruguppa">>
      /\ Field("season") = <<"Kharif">>
      /\ Field("soil_type") = Red_soil
      /\ Field("irrigation_source") \in {<<"Canal">>, <<"Drip">>} )
    =>
        /\ raised = "none"
        /\ result = [recommended_crop |-> "Paddy",
                     top_predictions |-> << [crop |-> "Paddy", score |-> 55],
                                            [crop |-> "Maize", score |-> 25],
                                            [crop |-> "Cotton", score |-> 12] >>]
        /\ matching_rules = <<1>>
        /\ Field("irrigation_source") = <<"Canal">> => ExactBucket = {1}
        /\ Field("irrigation_source") = <<"Drip">> =>
              (ExactBucket = {} /\ SoilOnlyBucket = {1})

C14_Witness ==
    /\ Returned
    /\ RULES = ShippedRULES
    /\ input_data = [district |-> <<"Siruguppa">>, season |-> <<"Kharif">>,
                     soil_type |-> Red_soil, irrigation_source |-> <<"Drip">>]
    /\ SoilOnlyBucket = {1}
    /\ result.recommended_crop = "Paddy"
    /\ Len(result.top_predictions) = 3

\* C15: recommend is deterministic across calls: a call with the query of an
\* earlier call has the outcome of that call, whatever was served in between;
\* so the fallback is the same constant on every call.
C15_SameQuerySameResult ==
    (pc = "done" /\ remembered # << >> /\ remembered[1].input_data = input_data) =>
        /\ remembered[1].result = result
        /\ remembered[1].raised = raised

C15_Witness ==
    /\ Returned
    /\ remembered # << >>
    /\ remembered[1].input_data = input_data
    /\ remembered[1].between = MaxBetween
    /\ rule # 0
    /\ \E k, l \in 1..Len(RULES[rule].crops) :
          k # l /\ RULES[rule].crops[k][2] = RULES[rule].crops[l][2]
    /\ remembered[1].result = result

\* C16: a call of recommend leaves the catalog as it is: the same rules in the
\* same order, each with its soil, irrigation and option lists, the options in
\* the order they had at start-up; sorting for the result does not reorder
\* the list of the rule.
C16_CatalogUnchanged == [][RULES' = RULES]_vars

C16_Witness ==
    /\ Returned
    /\ rule # 0
    /\ Len(RULES[rule].crops) = 4
    /\ RULES[rule].crops[1][1] # result.top_predictions[1].crop
    /\ RULES[rule].crops[1][2] < RULES[rule].crops[2][2]

\* ------------------------------------------ claims of the yield predictor
FeatureSet == {features[k] : k \in 1..Len(features)}

\* The values of a fitted vocabulary.
Vocabulary(f) == Range(FittedEncoders[f])

\* The code a vocabulary gives a value it holds: its position, from 0.
CodeOf(f, v) == CHOOSE n \in 0..(Len(FittedEncoders[f]) - 1) : FittedEncoders[f][n + 1] = v

\* predict has returned to the route in call t.
PredictReturned(t) == calls[t].at = "line_30"

\* Call t did its encoding with a vocabulary in memory for every feature.
EncodedWithVocabularies(t) == calls[t].encoders_at_110 = FeatureSet

C18_LazyLoadOrNone ==
    \A t \in Threads :
        PredictReturned(t) =>
            /\ calls[t].raised = "none"
            /\ calls[t].model_at_91 # "None" => calls[t].reads = << >>
            /\ calls[t].model_at_91 = "None" =>
                  /\ calls[t].reads =
                        IF files.model THEN <<"model", "encoders">> ELSE <<"model">>
                  /\ (files.model /\ files.encoders) =>
                        /\ model = "RandomForest"
                        /\ label_encoders = FittedEncoders
                        /\ is_trained_on_real_data
                  /\ ~(files.model /\ files.encoders) =>
                        calls[t].prediction_result = << >>
            /\ calls[t].model_error => calls[t].prediction_result = << >>

\* The model file is read, the vocabulary file is not: None.
C18_Witness ==
    /\ PredictReturned(1)
    /\ files.model
    /\ ~files.encoders
    /\ calls[1].model_at_91 = "None"
    /\ calls[1].reads = <<"model", "encoders">>
    /\ calls[1].prediction_result = << >>
    /\ calls[1].raised = "none"

\* The model's predict raised and predict returned None.
C18_ModelErrorReached ==
    /\ PredictReturned(1)
    /\ calls[1].model_error
    /\ calls[1].prediction_result = << >>
    /\ calls[1].raised = "none"

\* Call t is past the lazy load of predict and has not left predict's encoding
\* and prediction.
Encoding(t) == calls[t].at \in {"line_103", "line_124"}

\* C19: with both files loadable, when two calls have both found no model in
\* memory and both are through predict, the model, the vocabularies and the
\* flag are all set; and no call is at its encoding or its prediction while
\* the model is in memory and the vocabularies are not, nor has a call encoded
\* without them.  (Refuted: predict has no guard around lines 91-96, so a call
\* that tests line 91 after the other has run line 94 and before it has run
\* line 95 goes on to encode with label_encoders = {}.)
C19_NoCallSeesHalfLoadedState ==
    (files.model /\ files.encoders) =>
        /\ (\A t \in Threads : PredictReturned(t) /\ calls[t].model_at_91 = "None") =>
              /\ model = "RandomForest"
              /\ label_encoders = FittedEncoders
              /\ is_trained_on_real_data
        /\ \A t \in Threads :
              Encoding(t) =>
                 /\ ~(model # "None" /\ label_encoders = << >>)
                 /\ calls[t].at = "line_124" => EncodedWithVocabularies(t)

\* Both calls found no model in memory and both loaded.
C19_BothLoadReached ==
    /\ files.model /\ files.encoders
    /\ \A t \in Threads : PredictReturned(t) /\ calls[t].model_at_91 = "None"
    /\ model = "RandomForest"
    /\ label_encoders = FittedEncoders

\* The route has its answer for request t, which had all its fields.
Answered(t) ==
    /\ calls[t].at = "responded"
    /\ first_missing(calls[t].yield_data, 1) = ""

\* C20: when the model file or the vocabulary file cannot be loaded, a
\* request with all its fields is answered 500 "Prediction model not
\* available", with no body of a success, and it inserts no document.
\* (Refuted: once the model file is loaded and the vocabulary file is not, a
\* later request whose values are numbers is predicted from its raw values,
\* stored and answered as a success.)
C20_UnavailableModelIs500 ==
    \A t \in Threads :
        (Answered(t) /\ ~(files.model /\ files.encoders)) =>
            /\ calls[t].response =
                  HTTPException(500, <<"Prediction model not available">>)
            /\ calls[t].inserted = 0

\* Without the model file every request is answered with the 500.
C20_NoModelFileReached ==
    /\ Answered(1)
    /\ ~files.model
    /\ calls[1].response = HTTPException(500, <<"Prediction model not available">>)
    /\ calls[1].inserted = 0
    /\ predictions_collection = << >>

\* ------------------------------------------------ claims of the crop route
\* The crop route has its answer.
CropAnswered == pc = "responded" /\ crop_response # << >>

C21_CatalogDistrictReached ==
    /\ CropAnswered
    /\ rule # 0
    /\ crop_response[1].status_code = 200
    /\ crop_response[1].body[1].recommendations[1].crop = result.recommended_crop

\* ----------------------------------------------- claims of the yield route
\* The yield route has its answer for request t.
YieldResponded(t) == calls[t].at = "responded" /\ calls[t].response # << >>

\* The answer of request t is a success.
YieldSuccess(t) ==
    /\ YieldResponded(t)
    /\ calls[t].response[1].body # << >>

\* C22: a success answer of the yield route (success and stored_in_db true)
\* comes with exactly one document inserted in that request, a document that
\* carries the prediction obtained before and whose id is the prediction_id of
\* the answer; without the predictions collection the answer is an error, no
\* success, and nothing is inserted.
C22_SuccessMeansStored ==
    \A t \in Threads :
        /\ YieldSuccess(t) =>
              LET body == calls[t].response[1].body[1]
              IN  /\ body.success /\ body.stored_in_db
                  /\ calls[t].response[1].status_code = 200
                  /\ calls[t].inserted = 1
                  /\ calls[t].prediction_result # << >>
                  /\ \E k \in 1..Len(predictions_collection) :
                        /\ predictions_collection[k].id = body.prediction_id
                        /\ predictions_collection[k].predicted_yield =
                              calls[t].prediction_result[1].predicted_yield
                        /\ \A l \in 1..Len(predictions_collection) :
                              predictions_collection[l].id = body.prediction_id => l = k
        /\ (YieldResponded(t) /\ ~db_up) =>
              /\ calls[t].response[1].body = << >>
              /\ calls[t].response[1].status_code \in {400, 500}
              /\ calls[t].inserted = 0
              /\ predictions_collection = << >>

\* The second success of a run: its answer names the second document.
C22_Witness ==
    /\ YieldSuccess(1)
    /\ db_up
    /\ Len(predictions_collection) = 2
    /\ calls[1].response[1].body[1].prediction_id = predictions_collection[2].id
    /\ calls[1].inserted = 1

\* A prediction was obtained and the collection was not there: 500.
C22_NoCollectionReached ==
    /\ YieldResponded(1)
    /\ ~db_up
    /\ calls[1].prediction_result # << >>
    /\ calls[1].response =
          HTTPException(500, <<"Prediction failed", "AttributeError">>)

\* The fields the yield route requires, in the order of the claim.
RequiredInOrder ==
    <<"crop_name", "soil_type", "season", "irrigation_source", "state", "district">>

\* Positions of the required fields that request t lacks or has empty.
Lacking(t) ==
    {k \in 1..Len(RequiredInOrder) :
        \/ RequiredInOrder[k] \notin DOMAIN calls[t].yield_data
        \/ calls[t].yield_data[RequiredInOrder[k]] = ""}

\* C23: a request of the yield route that lacks one of crop_name, soil_type,
\* season, irrigation_source, state, district, or has it empty, is answered
\* 400 with the first such field of that order in the detail, and not 500;
\* predict is not called for it and no document is inserted.
C23_MissingFieldIs400 ==
    \A t \in Threads :
        (YieldResponded(t) /\ Lacking(t) # {}) =>
            /\ calls[t].response =
                  HTTPException(400, <<"Missing required field",
                                       RequiredInOrder[Min(Lacking(t))]>>)
            /\ calls[t].model_at_91 = ""
            /\ calls[t].reads = << >>
            /\ calls[t].input_df = << >>
            /\ calls[t].prediction_result = << >>
            /\ calls[t].inserted = 0

\* season is left out and state, later in the order, is empty: season is named.
C23_Witness ==
    /\ YieldResponded(1)
    /\ "season" \notin DOMAIN calls[1].yield_data
    /\ "state" \in DOMAIN calls[1].yield_data
    /\ calls[1].yield_data["state"] = ""
    /\ calls[1].response[1].status_code = 400
    /\ calls[1].response[1].detail = <<"Missing required field", "season">>
    /\ predictions_collection = << >>

\* --------------------------------------------- claims of the disease route
\* The disease route has its answer for an upload that has a content type,
\* one that does not start with image/.
NotAnImageAnswered ==
    /\ detect.at = "responded"
    /\ detect.upload.content_type # << >>
    /\ detect.upload.content_type[1] # "image/"

\* C24: an upload whose content type is not an image is answered 400 "File
\* must be an image", and no file is written to the uploads directory for it.
\* (Refuted: the 400 is raised inside the try of detect_disease, whose except
\* Exception turns it into 500 "Disease detection failed".)
C24_NotAnImageIs400 ==
    NotAnImageAnswered =>
        /\ detect.response = HTTPException(400, <<"File must be an image">>)
        /\ detect.written = 0

\* For an upload that is not an image nothing is written.
C24_NothingWritten == NotAnImageAnswered => detect.written = 0

\* An upload that is no image has been answered.
C24_NotAnImageReached ==
    /\ NotAnImageAnswered
    /\ detect.upload.content_type = <<"text/", "plain">>
    /\ detect.response = HTTPException(500, <<"Disease detection failed">>)

\* ------------------------------------------------ claims of the dashboard
\* The dashboard has answered with its body.
DashboardAnswered == dashboard # << >> /\ dashboard[1].body # << >>

\* The collection the entries of a type are made from.
CollectionOf(type) ==
    CASE type = "yield_prediction" -> collections.predictions
      [] type = "crop_recommendation" -> collections.recommendations
      [] type = "disease_detection" -> collections.disease_reports

\* How many documents of a list are of the user and have a created_at.
Timestamped(docs, user_id) ==
    Cardinality({k \in 1..Len(docs) :
                    docs[k].user_id = user_id /\ docs[k].created_at # << >>})

\* C25: recent_activity has at most 5 entries, each made of a document of the
\* user; entries with a timestamp come newest first, entries without one come
\* after all of them, and so the list holds as many timestamped entries as it
\* can: 5, or all the timestamped documents of the user when they are fewer.
\* (Refuted: the sort is descending on (timestamp is None, timestamp), which
\* puts the entries without timestamp first.)
C25_NewestFirstNoneLast ==
    DashboardAnswered =>
        LET body == dashboard[1].body[1]
            list == body.recent_activity
            total == Timestamped(collections.predictions, body.user_id)
                     + Timestamped(collections.recommendations, body.user_id)
                     + Timestamped(collections.disease_reports, body.user_id)
        IN  /\ Len(list) <= 5
            /\ \A k \in 1..Len(list) :
                  \E n \in 1..Len(CollectionOf(list[k].type)) :
                     /\ CollectionOf(list[k].type)[n].user_id = body.user_id
                     /\ CollectionOf(list[k].type)[n].created_at = list[k].timestamp
            /\ \A k, l \in 1..Len(list) :
                  k < l =>
                     /\ list[k].timestamp = << >> => list[l].timestamp = << >>
                     /\ (list[k].timestamp # << >> /\ list[l].timestamp # << >>) =>
                           list[k].timestamp[1] >= list[l].timestamp[1]
            /\ Cardinality({k \in 1..Len(list) : list[k].timestamp # << >>})
                  = Min({5, total})

\* What does hold: at most 5 entries, each of the user, and the timestamped
\* entries among themselves newest first.
C25_AtMostFiveOfTheUser ==
    DashboardAnswered =>
        LET body == dashboard[1].body[1]
            list == body.recent_activity
        IN  /\ Len(list) <= 5
            /\ \A k \in 1..Len(list) :
                  \E n \in 1..Len(CollectionOf(list[k].type)) :
                     /\ CollectionOf(list[k].type)[n].user_id = body.user_id
                     /\ CollectionOf(list[k].type)[n].created_at = list[k].timestamp
            /\ \A k, l \in 1..Len(list) :
                  (k < l /\ list[k].timestamp # << >> /\ list[l].timestamp # << >>) =>
                     list[k].timestamp[1] >= list[l].timestamp[1]

\* A document without created_at is first, and the oldest of the six
\* timestamped entries and one more are left out.
C25_PushedOutReached ==
    /\ DashboardAnswered
    /\ Len(dashboard[1].body[1].recent_activity) = 5
    /\ dashboard[1].body[1].recent_activity[1].timestamp = << >>
    /\ dashboard[1].body[1].recent_activity[2].timestamp = <<6>>
    /\ dashboard[1].body[1].recent_activity[5].timestamp = <<3>>

\* ------------------------------------- claims of the state of the predictor
\* No call is between the two loads of predict or between the second load
\* and the assignment of the flag.
NoLoadInProgress == \A t \in Threads : calls[t].at \notin {"line_95", "line_96"}

\* Call t ran the lazy load and it failed.
LoadFailed(t) ==
    /\ PredictReturned(t)
    /\ calls[t].reads # << >>
    /\ ~(files.model /\ files.encoders)

\* C26: between the calls of predict, whichever of the two files fails to
\* load, a model in memory comes with the encoder of every feature and with
\* is_trained_on_real_data true; and a call whose lazy load failed leaves the
\* predictor as it found it: no model, no encoders, the flag false.
\* (Refuted: when yield_model.pkl loads and yield_encoders.pkl does not, line
\* 94 has assigned self.model and nothing takes it back.)
C26_ModelComesWithVocabularies ==
    NoLoadInProgress =>
        /\ model # "None" =>
              /\ DOMAIN label_encoders = FeatureSet
              /\ is_trained_on_real_data
        /\ \A t \in Threads :
              LoadFailed(t) =>
                 /\ model = "None"
                 /\ label_encoders = << >>
                 /\ ~is_trained_on_real_data

\* The model file itself failed to load: the predictor is as it was.
C26_ModelFileFailedReached ==
    /\ LoadFailed(1)
    /\ ~files.model
    /\ model = "None"
    /\ label_encoders = << >>
    /\ ~is_trained_on_real_data

\* Both files loaded: model, encoders and flag are set.
C26_LoadedReached ==
    /\ PredictReturned(1)
    /\ model = "RandomForest"
    /\ DOMAIN label_encoders = FeatureSet
    /\ is_trained_on_real_data

\* Call t has made the test of line 91 and nothing after it.
JustTested(t) ==
    /\ calls[t].at \in {"line_94", "line_103"}
    /\ calls[t].reads = << >>

\* C27: in a run of calls made one after the other, a call reads the files
\* only if it found no model in memory; after a load that succeeded the next
\* call goes on without loading, and after a load that failed the next call
\* tries the load again.  (Refuted: when the load failed at the vocabulary
\* file the model stays in memory, and the next call does not try again.)
C27_LoadOnlyWithoutModel ==
    \A t \in Threads :
        /\ calls[t].reads # << >> => calls[t].model_at_91 = "None"
        /\ JustTested(t) =>
              /\ last_load = "succeeded" => calls[t].at = "line_103"
              /\ last_load = "failed" => calls[t].at = "line_94"

\* After a load that succeeded a later call does not load.
C27_NoReloadReached ==
    /\ JustTested(1)
    /\ last_load = "succeeded"
    /\ calls[1].at = "line_103"
    /\ calls[1].model_at_91 = "RandomForest"

\* After a load that failed at the model file the next call tries again.
C27_RetryReached ==
    /\ JustTested(1)
    /\ last_load = "failed"
    /\ ~files.model
    /\ calls[1].at = "line_94"

\* ----------------------------------------------------- claims of the signup
\* The email of signup t was stored when t was answered or is answered now.
AlreadyStored(t) ==
    \E k \in 1..Len(users) :
        /\ users[k].email = signups[t].user_data.email
        /\ signups[t].response[1].body # << >> => users[k].id # signups[t].response[1].body[1].id

\* C28: whatever the interleaving of the signups, no two stored users have the
\* same email, and a signup whose email is stored already is answered 400 and
\* inserts nothing.  (Refuted: two signups with the same new email that both
\* make the check of line 30 before either inserts are both stored.)
C28_EmailsAreUnique ==
    /\ \A k, l \in 1..Len(users) : users[k].email = users[l].email => k = l
    /\ \A t \in Threads :
          (signups[t].at = "responded" /\ db_up /\ AlreadyStored(t)) =>
              /\ signups[t].response[1].status_code = 400
              /\ signups[t].inserted = 0

\* One after the other: the second signup with an email is answered 400.
C28_SecondIs400Reached ==
    /\ signups[1].at = "responded"
    /\ signups[2].at = "idle"
    /\ Len(users) = 1
    /\ users[1].email = signups[1].user_data.email
    /\ signups[1].existing_user = <<users[1]>>
    /\ signups[1].response[1].status_code = 400
    /\ signups[1].inserted = 0

\* ------------------------------------------- claims of the shipped catalog
\* Each (district, season) pair has one rule in the shipped table.
OneRulePerDistrictAndSeason ==
    \A i, j \in 1..Len(ShippedRULES) :
        (/\ ShippedRULES[i].district = ShippedRULES[j].district
         /\ ShippedRULES[i].season = ShippedRULES[j].season) => i = j

\* The queries that agree with the query of the call in progress on the
\* trimmed district and the trimmed season.
SameDistrictAndSeason ==
    {crop_model_input(other) : other \in
        {payload \in Payloads :
            /\ Trimmed(payload.district) = Trimmed(input_data["district"])
            /\ Trimmed(payload.season) = Trimmed(input_data["season"])}}

\* C29: with the shipped table, which has one rule for each (district, season)
\* pair, the result of recommend is a function of the trimmed district and
\* season: every query that agrees with the query of a call on these two gets
\* the result of that call, whatever its soil type, irrigation source and
\* state are.
C29_OnlyDistrictAndSeasonMatter ==
    /\ OneRulePerDistrictAndSeason
    /\ (pc = "done" /\ RULES = ShippedRULES) =>
          \A other \in SameDistrictAndSeason :
              /\ recommend(other).result = result
              /\ recommend(other).raised = raised

\* A rule wins although it accepts neither the soil nor, for another query of
\* the same district and season, the irrigation; and the state differs.
C29_Witness ==
    /\ Returned
    /\ RULES = ShippedRULES
    /\ rule # 0
    /\ ~AcceptsSoil(rule)
    /\ \E other \in SameDistrictAndSeason :
          /\ other.state # input_data["state"]
          /\ other.irrigation_source # input_data["irrigation_source"]
          /\ Trimmed(other.soil_type) \in Range(RULES[rule].soil_types)
          /\ recommend(other).result = result

\* C30: every rule of the shipped table has at least one option and names no
\* crop twice, and so no result of recommend over it, the fallback included,
\* names a crop twice in top_predictions.
C30_NoCropTwice ==
    /\ \A i \in 1..Len(ShippedRULES) :
          /\ ShippedRULES[i].crops # << >>
          /\ \A k, l \in 1..Len(ShippedRULES[i].crops) :
                ShippedRULES[i].crops[k][1] = ShippedRULES[i].crops[l][1] => k = l
    /\ (pc = "done" /\ RULES = ShippedRULES) =>
          /\ raised = "none"
          /\ result.top_predictions # << >>
          /\ \A k, l \in 1..Len(result.top_predictions) :
                result.top_predictions[k].crop = result.top_predictions[l].crop => k = l

\* The fallback: three different crops.
C30_Witness ==
    /\ Returned
    /\ RULES = ShippedRULES
    /\ rule = 0
    /\ Len(result.top_predictions) = 3
    /\ Cardinality({result.top_predictions[k].crop : k \in 1..3}) = 3

\* A rule of four options: three different crops of it.
C30_RuleOfFourReached ==
    /\ Returned
    /\ RULES = ShippedRULES
    /\ rule # 0
    /\ Len(RULES[rule].crops) = 4
    /\ Cardinality({result.top_predictions[k].crop : k \in 1..3}) = 3

====
